---- MODULE Spec2Model ----
(***************************************************************************)
(* A model of node-open311 (src/open311.js): one Open311 client object,    *)
(* its public operations and the continuations the transport calls later.  *)
(*                                                                         *)
(* Strings the code inspects character by character (endpoint, discovery)  *)
(* are sequences of one-character tokens; JavaScript's undefined is the    *)
(* value Undefined.  The transport (request) and the XML parser (xml2js)   *)
(* are outside the repository: the transport answers a pending request     *)
(* with any status and body of the input sets, at any later time.          *)
(***************************************************************************)
EXTENDS Integers, Sequences, FiniteSets, Bags

VARIABLES endpoint, format, apiKey, discovery, pending, last

vars == <<endpoint, format, apiKey, discovery, pending, last>>

\* ------------------------------------------------------------------ bounds
\* the number of requests that may be in flight at once
MaxPending == 2

\* ------------------------------------------------------- program constants
\* the only status a GET treats as success (lines 85 and 423)
StatusOK == 200
\* the first status a POST treats as an error (line 457)
PostErrorFrom == 300

\* ------------------------------------------------------------ value spaces
Undefined == <<"undefined">>

\* endpoints a caller may hand to the constructor (or leave out)
EndpointInputs == {Undefined, <<"a">>, <<"a", "/">>}
\* discovery URLs a caller may hand to the constructor (or leave out)
DiscoveryInputs == {Undefined, <<"d", ".", "j", "s", "o", "n">>, <<"d", ".", "x", "m", "l">>}
ApiKeyInputs == {Undefined, <<"k">>}
Formats == {"json", "xml"}

\* statuses the transport may answer with
Statuses == {200, 201, 302}
\* what a body is written in: it parses as JSON or as XML, never as both, so
\* a body in the format the client does not expect is a malformed one to it
Wires == {"json", "xml"}

\* the three date fields of a service request, before conversion: a string
\* or left out
DateInputs == {"absent", "string"}
Requests == [requested_datetime : DateInputs, updated_datetime : DateInputs,
             expected_datetime : DateInputs]
AllDates == [requested_datetime |-> "string", updated_datetime |-> "string",
             expected_datetime |-> "string"]
RequestLists == {<<>>, <<AllDates>>} \cup {<<r, AllDates>> : r \in Requests}

\* elements of a service list, a definition's attributes, a token answer
ItemLists == {<<>>, <<"s1">>, <<"s1", "s2">>}

GeoReport_v2 == "http://wiki.open311.org/GeoReport_v2"
Production == [url |-> <<"b">>, specification |-> GeoReport_v2, type |-> "production",
               formats |-> <<"text/xml">>]
ProductionJson == [url |-> <<"c", "/">>, specification |-> GeoReport_v2,
                   type |-> "production", formats |-> <<"text/xml", "application/json">>]
Test == [url |-> <<>>, specification |-> GeoReport_v2, type |-> "test",
         formats |-> <<"application/json">>]
OtherSpec == [url |-> <<"e", "/">>, specification |-> "other", type |-> "production",
              formats |-> <<"text/xml">>]
DiscoveryDocs == {<<>>, <<Production>>, <<Production, ProductionJson>>,
                  <<OtherSpec, ProductionJson>>, <<Test, OtherSpec, Production>>}

\* options a caller may pass to serviceDiscovery; no options at all is
\* DefaultOptions
DefaultOptions == [cache |-> FALSE, type |-> "production",
                   specification |-> GeoReport_v2, index |-> 0]
OptionInputs == {DefaultOptions,
                 [DefaultOptions EXCEPT !.cache = TRUE],
                 [DefaultOptions EXCEPT !.cache = TRUE, !.index = 1],
                 [DefaultOptions EXCEPT !.cache = TRUE, !.type = "test"]}

FacadeOps == {"serviceList", "serviceDefinition", "submitRequest", "token",
              "serviceRequests"}

\* ---------------------------------------------------- callback arguments
\* the error slot: null or false, true, a status code, a parser's error
NoError == [tag |-> "falsy", code |-> 0]
TrueError == [tag |-> "true", code |-> 0]
StatusError(status) == [tag |-> "status", code |-> status]
ParseError == [tag |-> "parse", code |-> 0]
\* the result slot: nothing, the text of an error message, decoded data
NoResult == [tag |-> "undefined", isArray |-> FALSE, items |-> <<>>]
Message(status) == [tag |-> "message", isArray |-> FALSE, items |-> <<status>>]
Data(isArray, items) == [tag |-> "data", isArray |-> isArray, items |-> items]
Cb(err, res) == [err |-> err, res |-> res]

NoBody == [wire |-> "none", items |-> <<>>]
Bodies(items) == [wire : Wires, items : items]
\* what the transport may answer: any document with a status below 300, no
\* document with a redirect or a failure
Answers(items) ==
    {a \in [status : Statuses, body : Bodies(items) \cup {NoBody}] :
        IF a.status < 300 THEN a.body \in Bodies(items) ELSE a.body = NoBody}

\* ------------------------------------------------------- string helpers
\* s.slice(-1)
sliceLast(s) == IF Len(s) = 0 THEN <<>> ELSE <<s[Len(s)]>>

\* s.split('.') and its last element
lastSplit(s) ==
    LET dots == {i \in 1..Len(s) : s[i] = "."}
        from == IF dots = {} THEN 0 ELSE CHOOSE i \in dots : \A j \in dots : j <= i
    IN SubSeq(s, from + 1, Len(s))

\* __.indexOf(array, value): the first position (from 0) of value, or -1
indexOf(array, value) ==
    LET hits == {i \in 1..Len(array) : array[i] = value}
    IN IF hits = {} THEN -1 ELSE (CHOOSE i \in hits : \A j \in hits : i <= j) - 1

\* the url handed to the transport by _get and _post
requestUrl(path) == endpoint \o <<path, ".", format>>

\* ------------------------------------------------------------- parsers
\* xml2jsParser.parseString: an error for a body that is not XML
xml2jsParser(body) == [err |-> body.wire # "xml", items |-> body.items]

\* how the parser (explicitArray: false) hands over a node repeated n times
\* under its parent: no parent value at all for none (emptyTag: null), the
\* node itself for one, an array for several
xmlChildren(items) ==
    [parent |-> Len(items) > 0, isArray |-> Len(items) > 1, items |-> items]

\* JSON.parse throws on a body that is not JSON
JSON_parse(body) == [threw |-> body.wire # "json", items |-> body.items]

\* ---------------------------------------------------------- _convertDates
\* new Date(x): a date for a date string (or a date), Invalid Date for undefined
newDate(x) == IF x = "absent" THEN "invalid date" ELSE "date"
truthy(x) == x # "absent"

convertRequest(request) ==
    LET r1 == IF truthy(request.requested_datetime)
              THEN [request EXCEPT !.requested_datetime = newDate(@)] ELSE request
        r2 == IF truthy(r1.requested_datetime)
              THEN [r1 EXCEPT !.updated_datetime = newDate(@)] ELSE r1
    IN IF truthy(r2.expected_datetime)
       THEN [r2 EXCEPT !.expected_datetime = newDate(@)] ELSE r2

\* __.each visits the requests of an array; of a single request object it
\* visits the field values, which have no date fields of their own
_convertDates(isArray, items) ==
    IF isArray THEN [i \in 1..Len(items) |-> convertRequest(items[i])] ELSE items

\* ------------------------------------------------------ transport adapter
_get(status, body) ==
    IF status # StatusOK
    THEN [err |-> TrueError, body |-> Message(status)]
    ELSE [err |-> NoError, body |-> body]

_post_redirectsOk(status, body) ==
    IF status >= PostErrorFrom + 100
    THEN [err |-> StatusError(status), body |-> Message(status)]
    ELSE [err |-> NoError, body |-> body]

_post(status, body) ==
    IF status >= PostErrorFrom
    THEN [err |-> StatusError(status), body |-> Message(status)]
    ELSE [err |-> NoError, body |-> body]

\* ------------------------------------------------------------ _cacheOptions
\* the value of the expression 'application/json' !== -1, the boolean true,
\* which is strictly equal to no string of a formats list
jsonNeedle == "true"

\* responseData: [defined, endpoints]; the outcome: the client's endpoint and
\* format afterwards, whether a TypeError was thrown, whether callback ran
_cacheOptions_ignoresCache(responseData, options) ==
    LET match(e) == e.specification = options.specification /\ e.type = options.type
        endpoints == SelectSeq(responseData.endpoints, match)
        stay == [endpoint |-> endpoint, format |-> format, threw |-> TRUE, called |-> FALSE]
    IN IF ~responseData.defined THEN stay
       ELSE IF options.index + 1 > Len(endpoints) THEN stay
       ELSE LET e == endpoints[options.index + 1]
            IN [endpoint |-> IF sliceLast(e.url) # <<"/">> THEN e.url \o <<"/">> ELSE e.url,
                format |-> IF indexOf(e.formats, jsonNeedle) # 0 THEN "json" ELSE "xml",
                threw |-> FALSE, called |-> TRUE]

_cacheOptions(responseData, options) ==
    LET match(e) == e.specification = options.specification /\ e.type = options.type
        endpoints == SelectSeq(responseData.endpoints, match)
        stay == [endpoint |-> endpoint, format |-> format, threw |-> TRUE, called |-> FALSE]
    IN IF ~options.cache THEN [stay EXCEPT !.threw = FALSE, !.called = TRUE]
       \* responseData.endpoints of undefined
       ELSE IF ~responseData.defined THEN stay
       \* endpoints[options.index] is undefined: endpoint.url throws
       ELSE IF options.index + 1 > Len(endpoints) THEN stay
       ELSE LET e == endpoints[options.index + 1]
            IN [endpoint |-> IF sliceLast(e.url) # <<"/">> THEN e.url \o <<"/">> ELSE e.url,
                format |-> IF indexOf(e.formats, jsonNeedle) # 0 THEN "json" ELSE "xml",
                threw |-> FALSE, called |-> TRUE]

\* ------------------------------------------- continuations of the requests
\* Each gives what the continuation did: the callback invocations in order,
\* whether it ended by throwing, and the parser it ran.
Outcome(cbs, threw, decodedAs) == [cbs |-> cbs, threw |-> threw, decodedAs |-> decodedAs]

\* lines 84-109; the discovery document's root element wraps its endpoints
\* in the XML parse, so responseData.endpoints is undefined there
serviceDiscoveryCallback(status, body, options) ==
    IF status # StatusOK
    THEN [out |-> Outcome(<<Cb(StatusError(status), Message(status))>>, FALSE, "none"),
          endpoint |-> endpoint, format |-> format]
    ELSE IF lastSplit(discovery) = <<"x", "m", "l">>
    THEN LET p == xml2jsParser(body)
             data == IF p.err THEN NoResult ELSE Data(FALSE, p.items)
             c == _cacheOptions([defined |-> ~p.err, endpoints |-> <<>>], options)
         IN [out |-> Outcome((IF p.err THEN <<Cb(ParseError, NoResult)>> ELSE <<>>)
                             \o (IF c.called THEN <<Cb(NoError, data)>> ELSE <<>>),
                             c.threw, "xml"),
             endpoint |-> c.endpoint, format |-> c.format]
    ELSE LET p == JSON_parse(body)
             c == _cacheOptions([defined |-> TRUE, endpoints |-> p.items], options)
         IN IF p.threw
            THEN [out |-> Outcome(<<>>, TRUE, "json"), endpoint |-> endpoint, format |-> format]
            ELSE [out |-> Outcome(IF c.called THEN <<Cb(NoError, Data(FALSE, p.items))>> ELSE <<>>,
                                  c.threw, "json"),
                  endpoint |-> c.endpoint, format |-> c.format]

\* the JSON branch shared by the five facade operations
jsonBranch(body, dates) ==
    LET p == JSON_parse(body)
    IN IF p.threw THEN Outcome(<<>>, TRUE, "json")
       ELSE Outcome(<<Cb(NoError, Data(TRUE, IF dates THEN _convertDates(TRUE, p.items)
                                                ELSE p.items))>>, FALSE, "json")

\* lines 165-182
serviceListCallback(r) ==
    IF r.err # NoError THEN Outcome(<<Cb(r.err, r.body)>>, FALSE, "none")
    ELSE IF format = "xml"
    THEN LET p == xml2jsParser(r.body)
             service == xmlChildren(p.items)
         IN IF p.err THEN Outcome(<<Cb(ParseError, NoResult)>>, TRUE, "xml")
            ELSE IF ~service.parent THEN Outcome(<<>>, TRUE, "xml")
            ELSE Outcome(<<Cb(NoError, Data(service.isArray, service.items))>>, FALSE, "xml")
    ELSE jsonBranch(r.body, FALSE)

\* lines 199-217
serviceDefinitionCallback(r) ==
    IF r.err # NoError THEN Outcome(<<Cb(r.err, r.body)>>, FALSE, "none")
    ELSE IF format = "xml"
    THEN LET p == xml2jsParser(r.body)
             attribute == xmlChildren(p.items)
         IN IF p.err THEN Outcome(<<Cb(ParseError, NoResult)>>, TRUE, "xml")
            ELSE IF ~attribute.parent THEN Outcome(<<>>, TRUE, "xml")
            ELSE Outcome(<<Cb(NoError, Data(attribute.isArray, attribute.items))>>, FALSE, "xml")
    ELSE jsonBranch(r.body, FALSE)

\* lines 251-267: a parse error is only logged, and the result is wrapped
\* in a one-element array whatever the parser handed over
submitRequestCallback(r) ==
    IF r.err # NoError THEN Outcome(<<Cb(r.err, r.body)>>, FALSE, "none")
    ELSE IF format = "xml"
    THEN LET p == xml2jsParser(r.body)
             request == xmlChildren(p.items)
         IN IF p.err THEN Outcome(<<>>, TRUE, "xml")
            ELSE IF ~request.parent THEN Outcome(<<>>, TRUE, "xml")
            ELSE Outcome(<<Cb(NoError, Data(TRUE, IF request.isArray THEN <<request.items>>
                                                  ELSE request.items))>>, FALSE, "xml")
    ELSE jsonBranch(r.body, FALSE)

\* lines 286-302
tokenCallback(r) ==
    IF r.err # NoError THEN Outcome(<<Cb(r.err, r.body)>>, FALSE, "none")
    ELSE IF format = "xml"
    THEN LET p == xml2jsParser(r.body)
             request == xmlChildren(p.items)
         IN IF p.err THEN Outcome(<<Cb(ParseError, NoResult)>>, TRUE, "xml")
            ELSE IF ~request.parent THEN Outcome(<<>>, TRUE, "xml")
            ELSE Outcome(<<Cb(NoError, Data(request.isArray, request.items))>>, FALSE, "xml")
    ELSE jsonBranch(r.body, FALSE)

\* lines 350-373
serviceRequestsCallback(r) ==
    IF r.err # NoError THEN Outcome(<<Cb(r.err, r.body)>>, FALSE, "none")
    ELSE IF format = "xml"
    THEN LET p == xml2jsParser(r.body)
             request == xmlChildren(p.items)
         IN IF p.err THEN Outcome(<<Cb(ParseError, NoResult)>>, TRUE, "xml")
            ELSE IF ~request.parent THEN Outcome(<<>>, TRUE, "xml")
            ELSE Outcome(<<Cb(NoError, Data(request.isArray,
                                            _convertDates(request.isArray, request.items)))>>,
                         FALSE, "xml")
    ELSE jsonBranch(r.body, TRUE)

\* ------------------------------------------------------------------ events
\* last is the record of the step just taken: a call of a public operation
\* (which throws, or hands a request to the transport) or the run of a
\* request's continuation on the transport's answer.
NoEvent == [op |-> "none", phase |-> "init", threw |-> FALSE, issued |-> FALSE,
            url |-> <<>>, status |-> 0, body |-> NoBody, cbs |-> <<>>,
            decodedAs |-> "none", sentFormat |-> "none", options |-> DefaultOptions,
            endpointBefore |-> Undefined, formatBefore |-> "json"]

\* the precondition checks: discovery (74), endpoint (161, 195, 230, 282,
\* 316) and apiKey (237)
MissingConfiguration_noKeyCheck(op) ==
    \/ op = "serviceDiscovery" /\ discovery = Undefined
    \/ op \in FacadeOps /\ endpoint = Undefined

MissingConfiguration(op) ==
    \/ op = "serviceDiscovery" /\ discovery = Undefined
    \/ op \in FacadeOps /\ endpoint = Undefined
    \/ op = "submitRequest" /\ apiKey = Undefined

\* a call: the Error thrown before any request, or the request handed over
Call(op, url, sentFormat, options) ==
    LET event == [NoEvent EXCEPT !.op = op, !.phase = "call", !.options = options,
                                 !.endpointBefore = endpoint, !.formatBefore = format]
    IN /\ IF MissingConfiguration(op)
          THEN /\ pending' = pending
               /\ last' = [event EXCEPT !.threw = TRUE]
          ELSE /\ BagCardinality(pending) < MaxPending
               /\ pending' = pending (+) SetToBag({[op |-> op, sentFormat |-> sentFormat,
                                                    options |-> options]})
               /\ last' = [event EXCEPT !.issued = TRUE, !.url = url,
                                        !.sentFormat = sentFormat]
       /\ UNCHANGED <<endpoint, format, apiKey, discovery>>

\* the continuation of request p has run on (status, body) with outcome out
Responded(p, status, body, out) ==
    /\ pending' = pending (-) SetToBag({p})
    /\ last' = [NoEvent EXCEPT !.op = p.op, !.phase = "response", !.options = p.options,
                               !.sentFormat = p.sentFormat, !.status = status,
                               !.body = IF out.decodedAs = "none" THEN NoBody ELSE body,
                               !.cbs = out.cbs, !.threw = out.threw,
                               !.decodedAs = out.decodedAs,
                               !.endpointBefore = endpoint, !.formatBefore = format]

Awaiting(op) == {p \in BagToSet(pending) : p.op = op}

\* ----------------------------------------------------------------- actions
Init ==
    /\ endpoint \in EndpointInputs
    /\ format \in Formats
    /\ apiKey \in ApiKeyInputs
    /\ discovery \in DiscoveryInputs
    /\ pending = EmptyBag
    /\ last = NoEvent

serviceDiscovery ==
    \E options \in OptionInputs : Call("serviceDiscovery", discovery, "none", options)

serviceDiscoveryResponse ==
    \E p \in Awaiting("serviceDiscovery"), a \in Answers(DiscoveryDocs) :
        LET c == serviceDiscoveryCallback(a.status, a.body, p.options)
        IN /\ Responded(p, a.status, a.body, c.out)
           /\ endpoint' = c.endpoint
           /\ format' = c.format
           /\ UNCHANGED <<apiKey, discovery>>

serviceList == Call("serviceList", requestUrl("services"), format, DefaultOptions)

serviceListResponse ==
    \E p \in Awaiting("serviceList"), a \in Answers(ItemLists) :
        /\ Responded(p, a.status, a.body, serviceListCallback(_get(a.status, a.body)))
        /\ UNCHANGED <<endpoint, format, apiKey, discovery>>

serviceDefinition ==
    Call("serviceDefinition", requestUrl("services/code"), format, DefaultOptions)

serviceDefinitionResponse ==
    \E p \in Awaiting("serviceDefinition"), a \in Answers(ItemLists) :
        /\ Responded(p, a.status, a.body, serviceDefinitionCallback(_get(a.status, a.body)))
        /\ UNCHANGED <<endpoint, format, apiKey, discovery>>

submitRequest == Call("submitRequest", requestUrl("requests"), format, DefaultOptions)

submitRequestResponse ==
    \E p \in Awaiting("submitRequest"), a \in Answers(ItemLists) :
        /\ Responded(p, a.status, a.body, submitRequestCallback(_post(a.status, a.body)))
        /\ UNCHANGED <<endpoint, format, apiKey, discovery>>

token == Call("token", requestUrl("tokens/token"), format, DefaultOptions)

tokenResponse ==
    \E p \in Awaiting("token"), a \in Answers(ItemLists) :
        /\ Responded(p, a.status, a.body, tokenCallback(_get(a.status, a.body)))
        /\ UNCHANGED <<endpoint, format, apiKey, discovery>>

serviceRequests == Call("serviceRequests", requestUrl("requests"), format, DefaultOptions)

serviceRequestsResponse ==
    \E p \in Awaiting("serviceRequests"), a \in Answers(RequestLists) :
        /\ Responded(p, a.status, a.body, serviceRequestsCallback(_get(a.status, a.body)))
        /\ UNCHANGED <<endpoint, format, apiKey, discovery>>

Next ==
    \/ serviceDiscovery
    \/ serviceDiscoveryResponse
    \/ serviceList
    \/ serviceListResponse
    \/ serviceDefinition
    \/ serviceDefinitionResponse
    \/ submitRequest
    \/ submitRequestResponse
    \/ token
    \/ tokenResponse
    \/ serviceRequests
    \/ serviceRequestsResponse

Spec == Init /\ [][Next]_vars

\* ------------------------------------------------------------------ claims
IsResponse(op) == last.phase = "response" /\ last.op = op
IsError(err) == err.tag # "falsy"
DateFields == {"requested_datetime", "updated_datetime", "expected_datetime"}

\* the candidates of a discovery document that match the options, in order
Matching(doc, options) ==
    LET wanted(e) == e.specification = options.specification /\ e.type = options.type
    IN SelectSeq(doc, wanted)

\* C1: every continuation of a public operation that runs on a transport
\* answer invokes the caller's callback exactly once, with either an error
\* or a result and never both, whatever the status and the body.
C1_CallbackExactlyOnce ==
    last.phase = "response" =>
        /\ Len(last.cbs) = 1
        /\ IsError(last.cbs[1].err) # (last.cbs[1].res.tag = "data")

\* C2: a serviceDiscovery called with cache false (or without options)
\* leaves the client's endpoint and format as they were before its
\* continuation ran, for every status and every discovery document.
C2_DiscoveryWithoutCacheKeepsConfig ==
    (IsResponse("serviceDiscovery") /\ ~last.options.cache) =>
        /\ endpoint = last.endpointBefore
        /\ format = last.formatBefore

\* C2's case: a discovery without cache got a document whose first matching
\* candidate has another url than the client's endpoint, and handed it on
C2_Witness ==
    /\ IsResponse("serviceDiscovery")
    /\ last.options = DefaultOptions
    /\ last.status = StatusOK
    /\ last.cbs = <<Cb(NoError, Data(FALSE, <<Production, ProductionJson>>))>>
    /\ endpoint = <<"a">>
    /\ format = "xml"

\* C3: after a successful serviceDiscovery with cache true the client's
\* format is "json" if the selected candidate's formats include
\* application/json, and "xml" otherwise.
C3_FormatFollowsCandidate ==
    (/\ IsResponse("serviceDiscovery")
     /\ last.options.cache
     /\ ~last.threw
     /\ Len(last.cbs) = 1
     /\ ~IsError(last.cbs[1].err)) =>
        LET selected == Matching(last.body.items, last.options)[last.options.index + 1]
            hasJson == \E i \in 1..Len(selected.formats) :
                           selected.formats[i] = "application/json"
        IN format = IF hasJson THEN "json" ELSE "xml"

\* C4: when serviceDiscovery with cache true reads a document in which N
\* candidates match and the requested index is at least N, an error is
\* signaled to the caller and the client's endpoint is not changed.
C4_SelectionErrorSignaled ==
    (/\ IsResponse("serviceDiscovery")
     /\ last.options.cache
     /\ last.status = StatusOK
     /\ last.decodedAs = "json"
     /\ last.body.wire = "json"
     /\ last.options.index >= Len(Matching(last.body.items, last.options))) =>
        /\ \E i \in 1..Len(last.cbs) : IsError(last.cbs[i].err)
        /\ endpoint = last.endpointBefore

\* C5: whenever a facade operation hands a request to the transport, the
\* client's endpoint is a non-empty url that ends with a slash.
C5_EndpointEndsWithSlash ==
    (last.phase = "call" /\ last.issued /\ last.op \in FacadeOps) =>
        /\ endpoint # <<>>
        /\ endpoint[Len(endpoint)] = "/"

\* C6: a call made without the configuration it needs (serviceDiscovery
\* without discovery, a facade operation without endpoint, submitRequest
\* without apiKey) throws, hands no request to the transport and invokes
\* no callback.
C6_ConfigurationErrorBeforeNetwork ==
    [][(/\ last'.phase = "call"
        /\ \/ last'.op = "serviceDiscovery" /\ discovery = Undefined
           \/ last'.op \in FacadeOps /\ endpoint = Undefined
           \/ last'.op = "submitRequest" /\ apiKey = Undefined) =>
            /\ pending' = pending
            /\ last'.threw
            /\ ~last'.issued
            /\ last'.cbs = <<>>]_vars

\* C6's case: submitRequest was called with an endpoint and without apiKey
\* while another request was in flight
C6_Witness ==
    /\ last.phase = "call"
    /\ last.op = "submitRequest"
    /\ endpoint # Undefined
    /\ apiKey = Undefined
    /\ last.threw
    /\ BagCardinality(pending) > 0

\* C7 as claimed: a submitRequest answered with status 302 is a success:
\* the callback gets no error and the body went to a decoder.
C7_Post302IsSuccess ==
    (IsResponse("submitRequest") /\ last.status = 302) =>
        /\ last.cbs # <<>>
        /\ ~IsError(last.cbs[1].err)
        /\ last.decodedAs # "none"

\* C7 as amended: a submitRequest answered with status 302 is an error: the
\* callback is invoked once with the status 302 as its error and a message,
\* and the body goes to no decoder; a body is decoded exactly when the
\* status is below 300.
C7_Post302IsError ==
    IsResponse("submitRequest") =>
        /\ last.status = 302 =>
              /\ last.cbs = <<Cb(StatusError(302), Message(302))>>
              /\ ~last.threw
        /\ (last.decodedAs # "none") <=> (last.status < PostErrorFrom)

\* C7's case: a submitRequest was answered with status 302
C7_Witness ==
    /\ IsResponse("submitRequest")
    /\ last.status = 302
    /\ Len(last.cbs) = 1

\* C8: in a serviceRequests result each of the three date fields of each
\* request is a date-time value exactly when that field came as a string,
\* and a field that was left out stays left out.
C8_DatesConvertedWhenPresent ==
    (/\ IsResponse("serviceRequests")
     /\ Len(last.cbs) = 1
     /\ last.cbs[1].res.tag = "data") =>
        LET before == last.body.items
            after == last.cbs[1].res.items
        IN /\ Len(after) = Len(before)
           /\ \A i \in 1..Len(before) : \A f \in DateFields :
                  after[i][f] = IF before[i][f] = "string" THEN "date" ELSE "absent"

\* C9: with format "xml", a serviceList answer holding exactly one service
\* element delivers a one-element sequence to the callback.
C9_SingleServiceIsSequence ==
    (/\ IsResponse("serviceList")
     /\ last.decodedAs = "xml"
     /\ last.body.wire = "xml"
     /\ Len(last.body.items) = 1) =>
        last.cbs = <<Cb(NoError, Data(TRUE, last.body.items))>>

\* C10: the decoder a facade operation runs on an answer is the one of the
\* format whose suffix was put on that request's url.
C10_DecoderMatchesSuffix ==
    (/\ last.phase = "response"
     /\ last.op \in FacadeOps
     /\ last.decodedAs # "none") =>
        last.decodedAs = last.sentFormat

====
